---- MODULE Spec2Model ----
(***************************************************************************)
(* State-machine model of the chat store (HIM.ChatLog), the key            *)
(* resolution (HIM.load_api_key) and the three chat front ends: the CLI    *)
(* loop (HIM.run_chat), the lightweight HTTP API (api_server.chat_once)    *)
(* and the full HTTP API (server.create_session / history / chat).         *)
(*                                                                         *)
(* Text is a sequence of one-character strings, so that trimming, joining  *)
(* and emptiness tests are computed rather than assumed.  Python's None is *)
(* the one-element sequence None, which no text of the model equals.       *)
(* Store operations are assumed to succeed (no sqlite error is modelled);  *)
(* each one is a single committed step, as every ChatLog method opens,     *)
(* commits and closes its own connection.                                  *)
(***************************************************************************)
EXTENDS Integers, Sequences, FiniteSets, TLC

\* Number of front-end invocations (HTTP requests or CLI runs) in a behaviour.
NReq == 2

\* Number of input lines one CLI run reads before it is interrupted.
MaxTurns == 1

Reqs == 1..NReq

---------------------------------------------------------------------------
\* Text helpers

None == <<"<None>">>

SP == " "

NL == "\n"

Whitespace == {SP, NL}

\* Python truthiness of an Optional[str]: neither None nor "".
Truthy(x) == x # None /\ x # <<>>

\* x or y
Or(x, y) == IF Truthy(x) THEN x ELSE y

RECURSIVE LStrip(_, _)
LStrip(s, cs) == IF s # <<>> /\ Head(s) \in cs THEN LStrip(Tail(s), cs) ELSE s

RECURSIVE RStrip(_, _)
RStrip(s, cs) ==
    IF s # <<>> /\ s[Len(s)] \in cs THEN RStrip(SubSeq(s, 1, Len(s) - 1), cs) ELSE s

\* str.strip(chars)
StripChars(s, cs) == RStrip(LStrip(s, cs), cs)

\* str.strip()
strip(s) == StripChars(s, Whitespace)

\* "".join(parts)
RECURSIVE Join(_)
Join(parts) == IF parts = <<>> THEN <<>> ELSE Head(parts) \o Join(Tail(parts))

---------------------------------------------------------------------------
\* The store: HIM.ChatLog over one sqlite file shared by every front end

VARIABLES
    sessions,   \* table sessions: rows [id, created_at, title]
    messages,   \* table messages: rows [id, session_id, role, content, ts]
    lastId,     \* sqlite_sequence of messages: the last AUTOINCREMENT id given
    clock,      \* datetime.now(timezone.utc), advanced by every write
    req,        \* each front-end invocation: its inputs, locals and position
    calls,      \* history: the create_session calls made, in commit order
    log,        \* history: the append calls made, in commit order
    src,        \* load_api_key: the five places a key can come from
    kpc,        \* load_api_key: its position
    search_report,  \* load_api_key: its list of (where, found)
    key,        \* load_api_key: the value returned, None before
    exit_msg    \* load_api_key: the lines given to sys.exit, <<>> before

storeVars == <<sessions, messages, lastId, clock, req, calls, log>>

keyVars == <<src, kpc, search_report, key, exit_msg>>

vars == <<storeVars, keyVars>>

\* title or None
TitleOrNone(title) == Or(title, None)

\* INSERT OR REPLACE in place of INSERT OR IGNORE.
create_session_replace(sess, session_id, title, now) ==
    {row \in sess : row.id # session_id}
        \cup {[id |-> session_id, created_at |-> now, title |-> TitleOrNone(title)]}

\* ChatLog.create_session: INSERT OR IGNORE on the primary key id.
create_session(sess, session_id, title, now) ==
    IF \E row \in sess : row.id = session_id
    THEN sess
    ELSE sess \cup {[id |-> session_id, created_at |-> now, title |-> TitleOrNone(title)]}

\* ChatLog.append: INSERT with the next AUTOINCREMENT id.  The declared foreign
\* key is not enforced (sqlite3 leaves foreign_keys off), so no session is required.
append(msgs, last, session_id, role, content, now) ==
    msgs \cup {[id |-> last + 1, session_id |-> session_id, role |-> role,
                content |-> content, ts |-> now]}

\* The rows of a set ordered by id ascending.
RECURSIVE OrderByIdAsc(_)
OrderByIdAsc(rows) ==
    IF rows = {} THEN <<>>
    ELSE LET first == CHOOSE m \in rows : \A o \in rows : m.id <= o.id
         IN  <<first>> \o OrderByIdAsc(rows \ {first})

\* ORDER BY id DESC in place of ASC.
RECURSIVE OrderByIdDesc(_)
OrderByIdDesc(rows) ==
    IF rows = {} THEN <<>>
    ELSE LET first == CHOOSE m \in rows : \A o \in rows : m.id >= o.id
         IN  <<first>> \o OrderByIdDesc(rows \ {first})

Columns(rows) ==
    [i \in DOMAIN rows |-> [role |-> rows[i].role, content |-> rows[i].content,
                            ts |-> rows[i].ts]]

history_desc(msgs, session_id) ==
    Columns(OrderByIdDesc({m \in msgs : m.session_id = session_id}))

\* ChatLog.history: SELECT role, content, ts WHERE session_id = ? ORDER BY id ASC.
history(msgs, session_id) ==
    Columns(OrderByIdAsc({m \in msgs : m.session_id = session_id}))

\* to_chat_history_for_gemini: keep the user and model rows, in order.
to_chat_history_for_gemini(history_rows) ==
    LET kept == SelectSeq(history_rows, LAMBDA r : r.role \in {"user", "model"})
    IN  [i \in DOMAIN kept |-> [role |-> kept[i].role, text |-> kept[i].content]]

---------------------------------------------------------------------------
\* Inputs and model outputs the front ends are driven with

\* A getattr() target that has no such attribute.
Absent == <<"<absent>">>

\* datetime.now().strftime("%Y%m%d"), the lightweight API's default session id.
TodayCompact == <<"20250101">>

\* datetime.now().strftime("%Y-%m-%d"), the CLI's default session id.
TodayIso == <<"2025-01-01">>

\* The CLI's greeting (with a plain apostrophe).
system_greeting == <<"Hello. What's on your mind today?">>

\* The lightweight API's placeholder reply.
EmptyReply == <<"(empty reply)">>

\* data.get("session_id") and data.get("message") of the lightweight API's body.
LiteSessionIds == {None, <<SP, "s">>}

LiteMessages == {None, <<SP>>, <<"a", SP>>}

\* payload.get("session_id") and payload.get("title") of POST /api/session.
PayloadSessionIds == {None, <<>>, <<SP>>, <<"s", SP>>}

PayloadTitles == {None, <<>>, <<"T">>}

\* ChatIn.session_id and ChatIn.message; the session_id of GET /api/history.
ChatInSessionIds == {<<"s">>, <<"t">>}

ChatInMessages == {<<>>, <<SP>>, <<SP, "b">>}

\* args.session, args.title and the lines typed into the CLI.
CliSessions == {None, <<"s">>}

CliTitles == {None, <<"U">>}

CliLines == {<<SP>>, <<"c", SP>>}

\* resp.text of a non-streamed reply.
RespTexts == {Absent, None, <<>>, <<SP>>, <<"r", NL>>}

\* The text of each chunk of a streamed reply.
Streams == {<<>>, <<None, <<SP>>>>, <<Absent>>, <<<<SP, "o">>, None, <<"k", NL>>>>}

\* getattr(obj, "text", default)
getattr_text(text, default) == IF text = Absent THEN default ELSE text

\* The chunk loop of server.chat and run_chat: the truthy chunk texts, in order.
RECURSIVE CollectParts(_)
CollectParts(stream) ==
    IF stream = <<>> THEN <<>>
    ELSE LET text == getattr_text(Head(stream), None)
         IN  (IF Truthy(text) THEN <<text>> ELSE <<>>) \o CollectParts(Tail(stream))

---------------------------------------------------------------------------
\* Front-end invocations

Idle ==
    [kind |-> "idle", pc |-> "idle", payload_id |-> None, session_id |-> None,
     message |-> None,
     title |-> None, prior |-> <<>>, resp |-> None, reply |-> None,
     status |-> 0, detail |-> "", rows |-> <<>>, turns |-> 0]

\* Invocations are interchangeable: slot r starts only after slot r - 1 has.
CanStart(r) == req[r].kind = "idle" /\ (IF r = 1 THEN TRUE ELSE req[r - 1].kind # "idle")

At(r, kind, pc) == req[r].kind = kind /\ req[r].pc = pc

\* store.create_session(session_id, title) by invocation r.
DoCreate(r, session_id, title) ==
    /\ sessions' = create_session(sessions, session_id, title, clock)
    /\ calls' = Append(calls, [id |-> session_id, title |-> title, at |-> clock, by |-> r])
    /\ clock' = clock + 1
    /\ UNCHANGED <<messages, lastId, log, keyVars>>

\* store.append(session_id, role, content) by invocation r.
DoAppend(r, session_id, role, content) ==
    /\ messages' = append(messages, lastId, session_id, role, content, clock)
    /\ lastId' = lastId + 1
    /\ log' = Append(log, [session_id |-> session_id, role |-> role,
                           content |-> content, by |-> r])
    /\ clock' = clock + 1
    /\ UNCHANGED <<sessions, calls, keyVars>>

NoStore == UNCHANGED <<sessions, messages, lastId, clock, calls, log, keyVars>>

Finish(r, status, detail) ==
    req' = [req EXCEPT ![r] = [@ EXCEPT !.pc = "done", !.status = status, !.detail = detail]]

Goto(r, pc) == req' = [req EXCEPT ![r].pc = pc]

---------------------------------------------------------------------------
\* Lightweight HTTP API: api_server.chat_once.  Every exception raised inside
\* the handler is answered 500 with the exception's text.

\* Lines 39-43: read the body, default and trim the inputs, reject an empty message.
LiteStart(r) ==
    /\ CanStart(r)
    /\ \E sid \in LiteSessionIds, msg \in LiteMessages :
        LET session_id == strip(Or(sid, TodayCompact))
            user_msg == strip(Or(msg, <<>>))
        IN  req' = [req EXCEPT ![r] =
                [Idle EXCEPT !.kind = "lite", !.session_id = session_id,
                             !.message = user_msg,
                             !.pc = IF user_msg = <<>> THEN "done" ELSE "create",
                             !.status = IF user_msg = <<>> THEN 400 ELSE 0,
                             !.detail = IF user_msg = <<>> THEN "message is required" ELSE ""]]
    /\ NoStore

\* Line 45.
LiteCreate(r) ==
    /\ At(r, "lite", "create")
    /\ DoCreate(r, req[r].session_id, None)
    /\ Goto(r, "prime")

\* Lines 46-47: load the prior history and start a chat primed with it.
LitePrime(r) ==
    /\ At(r, "lite", "prime")
    /\ NoStore
    /\ \/ req' = [req EXCEPT ![r] = [@ EXCEPT !.prior = history(messages, req[r].session_id),
                                               !.pc = "append_user"]]
       \/ Finish(r, 500, "start_chat")

\* The user turn is not stored.
LiteAppendUser_skip(r) ==
    /\ At(r, "lite", "append_user")
    /\ NoStore
    /\ Goto(r, "send")

\* Line 49.
LiteAppendUser(r) ==
    /\ At(r, "lite", "append_user")
    /\ DoAppend(r, req[r].session_id, "user", req[r].message)
    /\ Goto(r, "send")

\* The trimmed text is kept even when it is empty.
LiteReply_noPlaceholder(text) == strip(Or(getattr_text(text, <<>>), <<>>))

\* (getattr(resp, "text", "") or "").strip() or "(empty reply)"
LiteReply(text) == Or(strip(Or(getattr_text(text, <<>>), <<>>)), EmptyReply)

\* Lines 50-51: the model call, which returns a response or raises.
LiteSend(r) ==
    /\ At(r, "lite", "send")
    /\ NoStore
    /\ \/ \E text \in RespTexts :
            req' = [req EXCEPT ![r] = [@ EXCEPT !.resp = text, !.reply = LiteReply(text),
                                                !.pc = "append_model"]]
       \/ Finish(r, 500, "send_message")

\* Lines 52-53.
LiteAppendModel(r) ==
    /\ At(r, "lite", "append_model")
    /\ DoAppend(r, req[r].session_id, "model", req[r].reply)
    /\ Finish(r, 200, "")

Lite(r) ==
    \/ LiteStart(r)
    \/ LiteCreate(r)
    \/ LitePrime(r)
    \/ LiteAppendUser(r)
    \/ LiteSend(r)
    \/ LiteAppendModel(r)

---------------------------------------------------------------------------
\* Full HTTP API: server.create_session, server.history, server.chat.
\* ChatIn makes session_id and message required strings, used untrimmed.

\* The session id is checked before it is trimmed.
FullSession_checkRaw(r) ==
    /\ CanStart(r)
    /\ \E sid \in PayloadSessionIds, t \in PayloadTitles :
        LET session_id == strip(Or(sid, <<>>))
            title == Or(t, None)
        IN  IF ~Truthy(sid)
            THEN /\ req' = [req EXCEPT ![r] =
                        [Idle EXCEPT !.kind = "full_session", !.payload_id = sid,
                                     !.session_id = session_id,
                                     !.title = title, !.pc = "done", !.status = 400,
                                     !.detail = "session_id is required"]]
                 /\ NoStore
            ELSE /\ req' = [req EXCEPT ![r] =
                        [Idle EXCEPT !.kind = "full_session", !.payload_id = sid,
                                     !.session_id = session_id,
                                     !.title = title, !.pc = "done", !.status = 200]]
                 /\ DoCreate(r, session_id, title)

\* POST /api/session, lines 76-81.
FullSession(r) ==
    /\ CanStart(r)
    /\ \E sid \in PayloadSessionIds, t \in PayloadTitles :
        LET session_id == strip(Or(sid, <<>>))
            title == Or(t, None)
        IN  IF session_id = <<>>
            THEN /\ req' = [req EXCEPT ![r] =
                        [Idle EXCEPT !.kind = "full_session", !.payload_id = sid,
                                     !.session_id = session_id,
                                     !.title = title, !.pc = "done", !.status = 400,
                                     !.detail = "session_id is required"]]
                 /\ NoStore
            ELSE /\ req' = [req EXCEPT ![r] =
                        [Idle EXCEPT !.kind = "full_session", !.payload_id = sid,
                                     !.session_id = session_id,
                                     !.title = title, !.pc = "done", !.status = 200]]
                 /\ DoCreate(r, session_id, title)

\* GET /api/history, line 85.
FullHistory(r) ==
    /\ CanStart(r)
    /\ \E sid \in ChatInSessionIds :
        req' = [req EXCEPT ![r] =
            [Idle EXCEPT !.kind = "full_history", !.session_id = sid,
                         !.rows = history(messages, sid), !.pc = "done", !.status = 200]]
    /\ NoStore

\* The scoped stderr suppression server.py imports from HIM: it hides native
\* diagnostics while the enclosed calls run and changes nothing they do.
SilenceNativeStderr(body) == body

\* POST /api/chat, lines 89-90: reject a message that is empty once trimmed.
FullChatStart(r) ==
    /\ CanStart(r)
    /\ \E sid \in ChatInSessionIds, msg \in ChatInMessages :
        LET blank == strip(msg) = <<>>
        IN  req' = [req EXCEPT ![r] =
                [Idle EXCEPT !.kind = "full_chat", !.session_id = sid, !.message = msg,
                             !.pc = IF blank THEN "done" ELSE "create",
                             !.status = IF blank THEN 400 ELSE 0,
                             !.detail = IF blank THEN "message is required" ELSE ""]]
    /\ NoStore

\* Line 93.
FullChatCreate(r) ==
    /\ At(r, "full_chat", "create")
    /\ DoCreate(r, req[r].session_id, None)
    /\ Goto(r, "begin")

\* The user turn is stored before the model is asked, as the lightweight API does.
FullChatBegin_persistFirst(r) ==
    /\ At(r, "full_chat", "begin")
    /\ DoAppend(r, req[r].session_id, "user", req[r].message)
    /\ req' = [req EXCEPT ![r] = [@ EXCEPT !.prior = history(messages, req[r].session_id),
                                            !.pc = "stream"]]

\* Lines 96-103: load the prior history, start a chat primed with it and send the
\* message for a streamed reply, inside the stderr-silencing scope; either call
\* may raise.
FullChatBegin(r) ==
    /\ At(r, "full_chat", "begin")
    /\ NoStore
    /\ SilenceNativeStderr(
          \/ req' = [req EXCEPT ![r] = [@ EXCEPT !.prior = history(messages, req[r].session_id),
                                                 !.pc = "stream"]]
          \/ Finish(r, 500, "Gemini init failed"))

\* Lines 105-116: drain the stream, which may raise; join and trim the parts;
\* an empty reply is answered 502.
FullChatStream(r) ==
    /\ At(r, "full_chat", "stream")
    /\ NoStore
    /\ \/ \E stream \in Streams :
            LET reply == strip(Join(CollectParts(stream)))
            IN  IF reply = <<>>
                THEN Finish(r, 502, "Empty response from model")
                ELSE req' = [req EXCEPT ![r] = [@ EXCEPT !.reply = reply,
                                                         !.pc = "append_user"]]
       \/ Finish(r, 500, "Gemini stream error")

\* Both turns are stored in one transaction.
FullChatAppendUser_bothTurns(r) ==
    /\ At(r, "full_chat", "append_user")
    /\ messages' = append(append(messages, lastId, req[r].session_id, "user",
                                  req[r].message, clock),
                           lastId + 1, req[r].session_id, "model", req[r].reply, clock)
    /\ lastId' = lastId + 2
    /\ log' = log \o <<[session_id |-> req[r].session_id, role |-> "user",
                         content |-> req[r].message, by |-> r],
                        [session_id |-> req[r].session_id, role |-> "model",
                         content |-> req[r].reply, by |-> r]>>
    /\ clock' = clock + 1
    /\ UNCHANGED <<sessions, calls, keyVars>>
    /\ Finish(r, 200, "")

\* Line 119.
FullChatAppendUser(r) ==
    /\ At(r, "full_chat", "append_user")
    /\ DoAppend(r, req[r].session_id, "user", req[r].message)
    /\ Goto(r, "append_model")

\* Lines 120-122.
FullChatAppendModel(r) ==
    /\ At(r, "full_chat", "append_model")
    /\ DoAppend(r, req[r].session_id, "model", req[r].reply)
    /\ Finish(r, 200, "")

Full(r) ==
    \/ FullSession(r)
    \/ FullHistory(r)
    \/ FullChatStart(r)
    \/ FullChatCreate(r)
    \/ FullChatBegin(r)
    \/ FullChatStream(r)
    \/ FullChatAppendUser(r)
    \/ FullChatAppendModel(r)

---------------------------------------------------------------------------
\* Command-line chat: HIM.run_chat, entered from main with the session id
\* defaulted to today's date.

\* main line 374 and run_chat line 279.
CliStart(r) ==
    /\ CanStart(r)
    /\ \E s \in CliSessions, t \in CliTitles :
        req' = [req EXCEPT ![r] =
            [Idle EXCEPT !.kind = "cli", !.session_id = Or(s, TodayIso), !.title = t,
                         !.pc = "create"]]
    /\ NoStore

\* The session is not created before the chat starts.
CliCreate_skip(r) ==
    /\ At(r, "cli", "create")
    /\ NoStore
    /\ Goto(r, "history")

\* Line 280.
CliCreate(r) ==
    /\ At(r, "cli", "create")
    /\ DoCreate(r, req[r].session_id, req[r].title)
    /\ Goto(r, "history")

\* Line 283.
CliHistory(r) ==
    /\ At(r, "cli", "history")
    /\ NoStore
    /\ req' = [req EXCEPT ![r] = [@ EXCEPT !.prior = history(messages, req[r].session_id),
                                            !.pc = "greet"]]

\* The greeting is stored whether or not there are prior messages.
CliGreet_always(r) ==
    /\ At(r, "cli", "greet")
    /\ DoAppend(r, req[r].session_id, "model", system_greeting)
    /\ Goto(r, "input")

\* Lines 286-302: start the chat; greet and store the greeting when there is no
\* prior message.
CliGreet(r) ==
    /\ At(r, "cli", "greet")
    /\ IF req[r].prior = <<>>
       THEN DoAppend(r, req[r].session_id, "model", system_greeting)
       ELSE NoStore
    /\ Goto(r, "input")

\* Lines 307-312 and 330-332: read a line; skip a blank one, store any other as
\* the user turn; Ctrl+C ends the run.
CliInput(r) ==
    /\ At(r, "cli", "input")
    /\ \/ /\ req[r].turns < MaxTurns
          /\ \E line \in CliLines :
               LET user_msg == strip(line)
               IN  IF user_msg = <<>>
                   THEN /\ req' = [req EXCEPT ![r].turns = @ + 1]
                        /\ NoStore
                   ELSE /\ req' = [req EXCEPT ![r] = [@ EXCEPT !.turns = @ + 1,
                                                               !.message = user_msg,
                                                               !.pc = "send"]]
                        /\ DoAppend(r, req[r].session_id, "user", user_msg)
       \/ /\ Finish(r, 0, "Goodbye!")
          /\ NoStore

\* Lines 317-327: stream the reply; an exception other than Ctrl+C ends the
\* process, Ctrl+C ends the run.
CliSend(r) ==
    /\ At(r, "cli", "send")
    /\ NoStore
    /\ \/ \E stream \in Streams :
            LET reply_text == strip(Join(CollectParts(stream)))
            IN  req' = [req EXCEPT ![r] = [@ EXCEPT !.reply = reply_text,
                            !.pc = IF reply_text = <<>> THEN "input" ELSE "append_model"]]
       \/ Finish(r, 1, "Traceback")
       \/ Finish(r, 0, "Goodbye!")

\* Line 328.
CliAppendModel(r) ==
    /\ At(r, "cli", "append_model")
    /\ DoAppend(r, req[r].session_id, "model", req[r].reply)
    /\ Goto(r, "input")

Cli(r) ==
    \/ CliStart(r)
    \/ CliCreate(r)
    \/ CliHistory(r)
    \/ CliGreet(r)
    \/ CliInput(r)
    \/ CliSend(r)
    \/ CliAppendModel(r)

---------------------------------------------------------------------------
\* Key resolution: HIM.load_api_key with _read_dotenv and _read_first_line.
\* A variable name is one element of a line's text; a file is None when it
\* does not exist, the .env file otherwise its lines (read_text().splitlines())
\* and the home file its whole text.

DQ == "\""

SQ == "'"

RECURSIVE IndexOf(_, _)
IndexOf(s, c) ==
    IF s = <<>> THEN 0
    ELSE IF Head(s) = c THEN 1
    ELSE LET i == IndexOf(Tail(s), c) IN IF i = 0 THEN 0 ELSE i + 1

\* One line of _read_dotenv's loop (lines 62-73): the value the line yields, or
\* None when the loop goes on to the next line.
DotenvLine(raw) ==
    LET line == strip(raw)
        eq == IndexOf(line, "=")
        k == strip(SubSeq(line, 1, eq - 1))
        v == StripChars(StripChars(strip(SubSeq(line, eq + 1, Len(line))), {DQ}), {SQ})
    IN  IF line = <<>> \/ Head(line) = "#" THEN None
        ELSE IF eq = 0 THEN None
        ELSE IF k \in {<<"GEMINI_API_KEY">>, <<"GOOGLE_API_KEY">>} /\ v # <<>> THEN v
        ELSE None

RECURSIVE DotenvLines(_)
DotenvLines(lines) ==
    IF lines = <<>> THEN None
    ELSE IF DotenvLine(Head(lines)) # None THEN DotenvLine(Head(lines))
    ELSE DotenvLines(Tail(lines))

\* _read_dotenv
read_dotenv(file) == IF file = None THEN None ELSE DotenvLines(file)

\* _read_first_line: the whole text of the file, trimmed, or None.
read_first_line(file) == IF file = None THEN None ELSE Or(strip(file), None)

Preferred == {None, <<>>, <<SP>>, <<SP, "p">>}

EnvGemini == {None, <<>>, <<SP>>, <<"g", SP>>}

EnvGoogle == {None, <<>>, <<"G">>}

DotenvFiles ==
    {None,
     <<>>,
     <<<<"#", "GEMINI_API_KEY", "=", "c">>, <<SP>>, <<"x">>, <<"GEMINI_API_KEY", "=", DQ, DQ>>>>,
     <<<<"OTHER", "=", "z">>, <<"GOOGLE_API_KEY", "=", SQ, "f", SP, SQ>>, <<"GEMINI_API_KEY", "=", "e">>>>,
     <<<<SP, "GEMINI_API_KEY", SP, "=", SP, DQ, "e", DQ, SP>>>>}

HomeFiles == {None, <<>>, <<SP, NL>>, <<"h", NL>>, <<"h", NL, "x">>}

KeyReturn(value) ==
    /\ key' = strip(value)
    /\ kpc' = "returned"

\* Lines 88-92: the explicit key.
KeyPreferred ==
    /\ kpc = "preferred"
    /\ IF Truthy(src.preferred)
       THEN KeyReturn(src.preferred) /\ UNCHANGED search_report
       ELSE kpc' = "env_gemini" /\ UNCHANGED <<key, search_report>>
    /\ UNCHANGED <<src, exit_msg, storeVars>>

\* One of the four reported lookups: report it, return the value when there is one.
KeyLookup(at, where, value, next) ==
    /\ kpc = at
    /\ search_report' = Append(search_report, <<where, Truthy(value)>>)
    /\ IF Truthy(value) THEN KeyReturn(value) ELSE kpc' = next /\ UNCHANGED key
    /\ UNCHANGED <<src, exit_msg, storeVars>>

\* The second lookup reads GOOGLE_API_KEY too.
KeyEnvGemini_wrongName ==
    KeyLookup("env_gemini", "env:GEMINI_API_KEY", src.GOOGLE_API_KEY, "env_google")

\* Lines 95-98.
KeyEnvGemini ==
    KeyLookup("env_gemini", "env:GEMINI_API_KEY", src.GEMINI_API_KEY, "env_google")

\* Lines 101-104.
KeyEnvGoogle ==
    KeyLookup("env_google", "env:GOOGLE_API_KEY", src.GOOGLE_API_KEY, "dotenv")

\* Lines 107-110.
KeyDotenv == KeyLookup("dotenv", ".env", read_dotenv(src.dotenv), "home")

\* The last lookup is not reported.
KeyHome_unreported ==
    /\ kpc = "home"
    /\ IF Truthy(read_first_line(src.home))
       THEN KeyReturn(read_first_line(src.home))
       ELSE kpc' = "missing" /\ UNCHANGED key
    /\ UNCHANGED <<src, exit_msg, search_report, storeVars>>

\* Lines 113-116.
KeyHome == KeyLookup("home", "~/.gemini-api-key", read_first_line(src.home), "missing")

\* f"  - {where}: {'FOUND' if found else 'not found'}"
ReportLine(entry) == <<"  - ", entry[1], ": ", IF entry[2] THEN "FOUND" ELSE "not found">>

\* Lines 119-130: the diagnostic, and the exit.
KeyMissing ==
    /\ kpc = "missing"
    /\ exit_msg' =
          <<<<"Missing Gemini API key. I looked in:">>>>
          \o [i \in DOMAIN search_report |-> ReportLine(search_report[i])]
          \o << <<"">>,
                <<"Fix one of the following:">>,
                <<"  * Pass a flag:    python therapist_chatbot.py --api-key YOUR_KEY">>,
                <<"  * Export env var: export GEMINI_API_KEY=YOUR_KEY   (zsh/bash)">>,
                <<"  * Put it in .env: echo 'GEMINI_API_KEY=YOUR_KEY' > .env">>,
                <<"  * Save a file:    echo 'YOUR_KEY' > ~/.gemini-api-key">> >>
    /\ kpc' = "exited"
    /\ UNCHANGED <<src, key, search_report, storeVars>>

load_api_key ==
    \/ KeyPreferred
    \/ KeyEnvGemini
    \/ KeyEnvGoogle
    \/ KeyDotenv
    \/ KeyHome
    \/ KeyMissing

---------------------------------------------------------------------------

NoSources ==
    [preferred |-> None, GEMINI_API_KEY |-> None, GOOGLE_API_KEY |-> None,
     dotenv |-> None, home |-> None]

InitStore ==
    /\ sessions = {}
    /\ messages = {}
    /\ lastId = 0
    /\ clock = 1
    /\ req = [r \in Reqs |-> Idle]
    /\ calls = <<>>
    /\ log = <<>>

\* The front ends over the shared store; key resolution is not running.
Init ==
    /\ InitStore
    /\ src = NoSources
    /\ kpc = "off"
    /\ search_report = <<>>
    /\ key = None
    /\ exit_msg = <<>>

Next == \E r \in Reqs : Lite(r) \/ Full(r) \/ Cli(r)

Spec == Init /\ [][Next]_vars

\* One call of load_api_key, from any combination of the five sources.
InitKey ==
    /\ InitStore
    /\ src \in [preferred : Preferred, GEMINI_API_KEY : EnvGemini,
                GOOGLE_API_KEY : EnvGoogle, dotenv : DotenvFiles, home : HomeFiles]
    /\ kpc = "preferred"
    /\ search_report = <<>>
    /\ key = None
    /\ exit_msg = <<>>

NextKey == load_api_key

SpecKey == InitKey /\ [][NextKey]_vars

\* CLI runs executed one after another: a step is taken by run r only while no
\* other invocation is under way.
Sequential(r) == \A q \in Reqs \ {r} : req[q].pc \in {"idle", "done"}

NextCli ==
    \E r \in Reqs :
        \/ Sequential(r) /\ CliStart(r)
        \/ Sequential(r) /\ CliCreate(r)
        \/ Sequential(r) /\ CliHistory(r)
        \/ Sequential(r) /\ CliGreet(r)
        \/ Sequential(r) /\ CliInput(r)
        \/ Sequential(r) /\ CliSend(r)
        \/ Sequential(r) /\ CliAppendModel(r)

SpecCli == Init /\ [][NextCli]_vars

---------------------------------------------------------------------------
\* Properties of the store and the front ends (specification Spec)

LogBy(r) == SelectSeq(log, LAMBDA e : e.by = r)

CallsBy(r) == SelectSeq(calls, LAMBDA c : c.by = r)

\* The first create_session call made with the id of call i.
FirstCall(i) ==
    calls[CHOOSE j \in DOMAIN calls :
            /\ calls[j].id = calls[i].id
            /\ \A k \in DOMAIN calls : calls[k].id = calls[i].id => j <= k]

\* C1: create_session is insert-if-absent.  After any sequence of create_session
\* calls with one id, from any front end and with any titles, the store holds
\* exactly one session row for that id, and its created_at and title are the
\* ones the first of those calls wrote.
C1_InsertIfAbsent ==
    \A i \in DOMAIN calls :
        {row \in sessions : row.id = calls[i].id}
            = {[id |-> calls[i].id, created_at |-> FirstCall(i).at,
                title |-> IF FirstCall(i).title \in {None, <<>>} THEN None
                          ELSE FirstCall(i).title]}

\* Two front ends have created the same session id with different titles.
C1_Witness ==
    \E i, j \in DOMAIN calls :
        /\ i < j
        /\ calls[i].id = calls[j].id
        /\ calls[i].title # calls[j].title
        /\ calls[i].title # None
        /\ req[calls[i].by].kind # req[calls[j].by].kind

SessionIdsSeen ==
    {log[i].session_id : i \in DOMAIN log} \cup {m.session_id : m \in messages}
        \cup ChatInSessionIds

RoleContent(rows) == [i \in DOMAIN rows |-> <<rows[i].role, rows[i].content>>]

\* C2: whatever the interleaving of appends to a session with appends to other
\* sessions, history(S) is exactly the messages appended to S, in the order
\* they were appended to S, and holds no message of another session.
C2_HistoryOrder ==
    \A S \in SessionIdsSeen :
        RoleContent(history(messages, S))
            = RoleContent(SelectSeq(log, LAMBDA e : e.session_id = S))

\* Three messages appended to one session, with an append to another session
\* between the first and the last of them.
C2_Witness ==
    \E i, j, k, l \in DOMAIN log :
        /\ i < j /\ j < k /\ i < l /\ l < k
        /\ log[i].session_id = log[j].session_id
        /\ log[j].session_id = log[k].session_id
        /\ log[l].session_id # log[i].session_id
        /\ log[i].by # log[l].by

\* C3: in the full API, a chat request answered 500 (the model failed to start
\* or the stream raised) or 502 (the reply is empty once trimmed) has appended
\* no message: neither its user message nor a model message.
C3_FailedChatStoresNothing ==
    \A r \in Reqs :
        (req[r].kind = "full_chat" /\ req[r].status \in {500, 502})
            => /\ LogBy(r) = <<>>
               /\ Cardinality(messages) = Len(log)

\* One full-API chat was answered 502 and another 500, after the session was created.
C3_Witness ==
    \E r, q \in Reqs :
        /\ req[r].kind = "full_chat" /\ req[r].status = 502
        /\ req[q].kind = "full_chat" /\ req[q].status = 500
        /\ req[q].detail = "Gemini stream error"
        /\ \E row \in sessions : row.id = req[r].session_id

\* Missing, empty or whitespace-only.
Blank(text) == text = None \/ \A i \in DOMAIN text : text[i] \in Whitespace

\* C4: in the full API, POST /api/session with a missing, empty or
\* whitespace-only session_id is answered 400 and creates no session row; POST
\* /api/chat with an empty or whitespace-only message is answered 400 before any
\* session is created or the model is called, and appends no message; and no
\* request answered 400 has written to the store.
C4_RejectedLeavesStore ==
    \A r \in Reqs :
        /\ (req[r].kind = "full_session" /\ Blank(req[r].payload_id))
              => req[r].status = 400
        /\ (req[r].kind = "full_chat" /\ Blank(req[r].message))
              => req[r].status = 400 /\ req[r].pc = "done"
        /\ (req[r].kind \in {"full_session", "full_chat"} /\ req[r].status = 400)
              => /\ CallsBy(r) = <<>>
                 /\ LogBy(r) = <<>>
                 /\ \A row \in sessions : \E i \in DOMAIN calls : calls[i].id = row.id
                 /\ Cardinality(messages) = Len(log)

\* A whitespace-only session_id and a whitespace-only message were both rejected.
C4_Witness ==
    \E r, q \in Reqs :
        /\ req[r].kind = "full_session" /\ req[r].payload_id = <<SP>> /\ req[r].status = 400
        /\ req[q].kind = "full_chat" /\ req[q].message = <<SP>> /\ req[q].status = 400

LiteModelCalled(r) ==
    \/ req[r].pc = "append_model"
    \/ req[r].status = 200
    \/ req[r].status = 500 /\ req[r].detail = "send_message"

\* C5: in the lightweight API, a chat request with a non-empty message stores
\* its user message before the model is called and its model message only after:
\* every model message a request wrote comes after that request's user message,
\* and a request whose model call raised is answered 500 having stored exactly
\* its user message.
C5_UserBeforeModel ==
    \A r \in Reqs :
        req[r].kind = "lite" =>
            /\ \A i \in DOMAIN log :
                  (log[i].by = r /\ log[i].role = "model")
                      => /\ req[r].pc = "done"
                         /\ \E j \in 1..(i - 1) :
                               /\ log[j].by = r
                               /\ log[j].role = "user"
                               /\ log[j].content = req[r].message
            /\ (req[r].pc = "send" \/ LiteModelCalled(r))
                  => /\ LogBy(r) # <<>>
                     /\ LogBy(r)[1].role = "user"
                     /\ LogBy(r)[1].session_id = req[r].session_id
            /\ (req[r].status = 500 /\ req[r].detail = "send_message")
                  => /\ Len(LogBy(r)) = 1
                     /\ LogBy(r)[1].content = req[r].message

\* One lightweight chat failed in the model call while another completed.
C5_Witness ==
    \E r, q \in Reqs :
        /\ req[r].kind = "lite" /\ req[r].status = 500 /\ req[r].detail = "send_message"
        /\ req[q].kind = "lite" /\ req[q].status = 200
        /\ req[q].session_id = req[r].session_id

\* The model returned no text: the attribute is absent, None, empty or whitespace.
NoText(text) == text = Absent \/ Blank(text)

\* C6: in the lightweight API, when the model returns no text for a request
\* with a non-empty message, the reply in the response and the model message
\* stored are both the literal "(empty reply)", and the status is 200.
C6_EmptyReplyPlaceholder ==
    \A r \in Reqs :
        (req[r].kind = "lite" /\ NoText(req[r].resp))
            => /\ req[r].pc = "append_model" => req[r].reply = EmptyReply
               /\ (req[r].pc = "done" /\ req[r].status \notin {400, 500})
                     => /\ req[r].status = 200
                        /\ req[r].reply = EmptyReply
                        /\ Len(LogBy(r)) = 2
                        /\ LogBy(r)[2].role = "model"
                        /\ LogBy(r)[2].content = EmptyReply
                        /\ \E m \in messages :
                              /\ m.session_id = req[r].session_id
                              /\ m.role = "model"
                              /\ m.content = EmptyReply

\* A whitespace-only reply and a reply with no text attribute were both answered
\* with the placeholder.
C6_Witness ==
    \E r, q \in Reqs :
        /\ req[r].kind = "lite" /\ req[r].status = 200 /\ req[r].resp = <<SP>>
        /\ req[q].kind = "lite" /\ req[q].status = 200 /\ req[q].resp = Absent

\* C9: in every store state reachable by interleaving CLI runs, lightweight-API
\* chats and full-API requests, every stored message references an existing
\* session: some session row has the message's session_id as its id.
C9_MessagesHaveSessions ==
    \A m \in messages : \E row \in sessions : row.id = m.session_id

\* Two different front ends have stored messages, in two sessions.
C9_Witness ==
    \E m, n \in messages :
        /\ m.session_id # n.session_id
        /\ \E i, j \in DOMAIN log :
              /\ log[i].session_id = m.session_id
              /\ log[j].session_id = n.session_id
              /\ req[log[i].by].kind # req[log[j].by].kind

\* C10: chat requests on one session id are not isolated.  In both HTTP
\* variants the user append and the model append of a request are separate
\* committed store operations: no step of the system stores more than one
\* message, so another request's turn can be stored between the two (the
\* transcript of C10_Witness is reachable).
C10_SeparateCommits ==
    [][/\ Len(log') <= Len(log) + 1
       /\ Cardinality(messages') <= Cardinality(messages) + 1]_vars

\* On one session, the user turn and the model turn of a full-API chat are
\* separated by a turn of a lightweight-API chat that was submitted later.
C10_Witness ==
    \E r, q \in Reqs : \E i, j, k \in DOMAIN log :
        /\ r < q
        /\ req[r].kind = "full_chat" /\ req[q].kind = "lite"
        /\ i < j /\ j < k
        /\ log[i].by = r /\ log[i].role = "user"
        /\ log[j].by = q
        /\ log[k].by = r /\ log[k].role = "model"
        /\ log[i].session_id = log[j].session_id
        /\ log[j].session_id = log[k].session_id
        /\ RoleContent(history(messages, log[i].session_id))
              = RoleContent(SelectSeq(log, LAMBDA e : e.session_id = log[i].session_id))

---------------------------------------------------------------------------
\* Properties of key resolution (specification SpecKey)

\* What each source yields, in the documented priority order.
Yielded ==
    <<src.preferred, src.GEMINI_API_KEY, src.GOOGLE_API_KEY,
      read_dotenv(src.dotenv), read_first_line(src.home)>>

\* A source is present when it yields a non-empty value.
Present(i) == Yielded[i] # None /\ Len(Yielded[i]) > 0

\* C7: load_api_key resolves in strict priority order, first match wins: it
\* returns the trimmed value of the highest-priority present source (explicit
\* key, GEMINI_API_KEY, GOOGLE_API_KEY, .env entry, ~/.gemini-api-key), never a
\* lower-priority one, and it returns whenever some source is present.
C7_PriorityOrder ==
    /\ kpc = "returned" =>
          \E i \in 1..5 :
              /\ Present(i)
              /\ \A j \in 1..(i - 1) : ~Present(j)
              /\ key = strip(Yielded[i])
    /\ kpc \in {"missing", "exited"} => \A i \in 1..5 : ~Present(i)

\* All five sources are present with different values and the explicit key won.
C7_Witness ==
    /\ kpc = "returned"
    /\ \A i \in 1..5 : Present(i)
    /\ \A i, j \in 1..5 : i # j => strip(Yielded[i]) # strip(Yielded[j])
    /\ key = <<"p">>

\* The lines of the diagnostic that report a source: (where, verdict).
Reported ==
    {<<exit_msg[i][2], exit_msg[i][4]>> :
        i \in {n \in DOMAIN exit_msg : Len(exit_msg[n]) = 4}}

\* C8 as claimed: the diagnostic reports all five sources as "not found".
C8_FiveNotFound ==
    kpc = "exited" =>
        /\ Cardinality(Reported) = 5
        /\ \A e \in Reported : e[2] = "not found"

\* C8 as amended: when no source yields a key, load_api_key returns no key and
\* exits with a diagnostic that reports the four sources searched after the
\* explicit key (env GEMINI_API_KEY, env GOOGLE_API_KEY, .env,
\* ~/.gemini-api-key), each as "not found"; the explicit key is not reported.
C8_FourNotFound ==
    /\ (\A i \in 1..5 : ~Present(i)) => kpc # "returned" /\ key = None
    /\ kpc = "exited" =>
        /\ key = None
        /\ \A i \in 1..5 : ~Present(i)
        /\ Reported = {<<"env:GEMINI_API_KEY", "not found">>,
                       <<"env:GOOGLE_API_KEY", "not found">>,
                       <<".env", "not found">>,
                       <<"~/.gemini-api-key", "not found">>}
        /\ Len(exit_msg) = 11

\* The process exited although a .env file and a home file exist (both without a key).
C8_Witness ==
    /\ kpc = "exited"
    /\ src.dotenv # None /\ Len(src.dotenv) > 0
    /\ src.home # None /\ Len(src.home) > 0
    /\ src.preferred = <<>>


---------------------------------------------------------------------------
\* Properties of CLI runs executed one after another (specification SpecCli)

\* The positions of the log entries that store the greeting.
Greetings == {i \in DOMAIN log : log[i].role = "model" /\ log[i].content = system_greeting}

\* The session of run r held no message when the run started: no earlier run
\* had stored one.
EmptyAtStart(r) ==
    \A i \in DOMAIN log : log[i].session_id = req[r].session_id => log[i].by >= r

====
